---- MODULE Spec2Model ----
(***************************************************************************)
(* Asset Analysis Engine of backend/CORE: the /analyze endpoint            *)
(* (app/api/analysis.py), NewsEngine (app/services/news_engine.py) and     *)
(* PredictionEngine (app/services/prediction_engine.py).                   *)
(*                                                                         *)
(* Units.  Observed and predicted prices and classifier scores are         *)
(* integers in thousandths before rounding and in hundredths after         *)
(* round(x, 2); growth and volatility are integers in hundredths of a      *)
(* percent; the risk score is in hundredths before round(x, 1) and in      *)
(* tenths after.  The values the model draws never lie on a rounding tie.  *)
(* The normalized sentiment is the exact fraction [num, den] with den > 0. *)
(* An optional value is a sequence of length 0 or 1.                       *)
(***************************************************************************)
EXTENDS Integers, Sequences, FiniteSets, TLC

VARIABLES
    classifier,   \* NewsEngine.classifier of the module-level engine: "loaded" or "None"
    googlenews,   \* result list of the shared GoogleNews client (NewsEngine.googlenews)
    req,          \* req[r]: the path/query parameters of request r
    orch,         \* orch[r]: the analyze_asset coroutine of request r
    math,         \* math[r]: the executor thread running run_forecast for r
    news,         \* news[r]: the executor thread running fetch_and_analyze for r
    fut,          \* fut[r][p]: the future of pipeline p of request r
    completed,    \* completed[r]: the pipelines of r in the order their futures completed
    response,     \* response[r]: what the client of r received
    call          \* a direct call of calculate_verdict: its arguments and result

vars == <<classifier, googlenews, req, orch, math, news, fut, completed, response,
          call>>

----------------------------------------------------------------------------
(* Bounds of the model *)

\* longest price series the market/NAV source returns
MaxSeriesLen == 31
\* most headlines the news source holds for one query, when one request runs
MaxResults == 2
\* most headlines the news source holds for one query, when fetch_and_analyze
\* is run on its own
MaxResultsNews == 6
\* most headlines the news source holds for one query, concurrent runs
MaxResultsConc == 1
\* the day pd.to_datetime('today') returns, as a day number
Today == 1000
\* price level of the observed series, in thousandths
BasePrice == 100000
\* half-width of the forecast uncertainty band, in thousandths
Band == 1504

(* Program constants *)

\* run_forecast: len(df) < 30
MinHistory == 30
\* run_forecast: df.tail(30) for the history slice and the volatility window
HistoryWindow == 30
\* run_forecast: make_future_dataframe(periods=30), forecast.tail(30)
ForecastPeriods == 30
\* _fetch_history: pd.Timedelta(days=730)
CutoffDays == 730
\* fetch_and_analyze: result()[:5]
TopN == 5

Requests == {"A", "B"}
Pipelines == {"math", "news"}
AssetTypes == {"stock", "mutual_fund", "gold"}

\* exception classes an external collaborator may raise: ValueError (and its
\* subclasses) is what analyze_asset's first handler catches
ExcTypes == {"ValueError", "ConnectionError"}
NotEnoughMsg == "Not enough historical data to predict"
ProviderText == "upstream provider error text"
InternalMsg == "Internal AI Error"

Exc(type, msg) == [type |-> type, msg |-> msg]

----------------------------------------------------------------------------
(* Arithmetic helpers *)

Min(a, b) == IF a < b THEN a ELSE b

\* round(a / b) to the nearest integer, ties to even, for b > 0
RoundDiv(a, b) ==
    LET q == a \div b
        rem == a - q * b
    IN  IF 2 * rem < b THEN q
        ELSE IF 2 * rem > b THEN q + 1
        ELSE IF q % 2 = 0 THEN q ELSE q + 1

\* largest s in lo..hi with s * s <= n, by bisection
RECURSIVE SqrtBetween(_, _, _)
SqrtBetween(lo, hi, n) ==
    IF lo >= hi THEN lo
    ELSE LET mid == (lo + hi + 1) \div 2
         IN  IF mid * mid <= n THEN SqrtBetween(mid, hi, n)
             ELSE SqrtBetween(lo, mid - 1, n)
ISqrt(n) == SqrtBetween(0, Min(n, 46340), n)

\* round(x, 2) of a value in thousandths: hundredths
Round2(x) == RoundDiv(x, 10)
\* round(x, 1) of a value in hundredths: tenths
Round1(x) == RoundDiv(x, 10)

RECURSIVE SumSeq(_)
SumSeq(s) == IF s = <<>> THEN 0 ELSE Head(s) + SumSeq(Tail(s))

\* s[:k]
Take(s, k) == SubSeq(s, 1, Min(k, Len(s)))
\* s.tail(k)
TailN(s, k) == SubSeq(s, Len(s) - Min(k, Len(s)) + 1, Len(s))

----------------------------------------------------------------------------
(* app/schemas/analysis.py *)

NewsItem(title, sentiment, score) ==
    [title |-> title, sentiment |-> sentiment, score |-> score]

\* confidence_lower / confidence_upper are Optional[float] = None
PredictionPoint(date, price, type, lower, upper) ==
    [date |-> date, price |-> price, type |-> type,
     confidence_lower |-> lower, confidence_upper |-> upper]

MetricCard(current, predicted, growth, risk) ==
    [current_price |-> current, predicted_price_30d |-> predicted,
     growth_percentage |-> growth, risk_score |-> risk]

AssetAnalysisResponse(symbol, asset_name, verdict, reason, points, items, metrics) ==
    [symbol |-> symbol, asset_name |-> asset_name, verdict |-> verdict,
     verdict_reason |-> reason, graph_data |-> points, news_feed |-> items,
     metrics |-> metrics]

----------------------------------------------------------------------------
(* app/api/analysis.py: calculate_verdict *)

Frac(n, d) == [num |-> n, den |-> d]
\* s > n/d and s < n/d for fractions with positive denominators
FracGT(s, n, d) == s.num * d > n * s.den
FracLT(s, n, d) == s.num * d < n * s.den

\* (mutation) a decision table whose thresholds are not strict
calculate_verdictNonStrict(growth_pct, sentiment_score) ==
    IF growth_pct >= 200
    THEN IF ~FracLT(sentiment_score, 1, 5)
         THEN <<"Strong Buy", "Price trend is strong and news is positive.">>
         ELSE IF ~FracGT(sentiment_score, -1, 5)
         THEN <<"Hold", "Math says UP, but bad news suggests a trap. Wait.">>
         ELSE <<"Buy", "Technical trend is up, neutral news.">>
    ELSE IF growth_pct <= -200
    THEN IF ~FracLT(sentiment_score, 1, 2)
         THEN <<"Buy", "Price is falling but news is very positive. Value buy opportunity.">>
         ELSE IF ~FracGT(sentiment_score, -1, 5)
         THEN <<"Strong Sell", "Falling price and bad news. Get out.">>
         ELSE <<"Sell", "Downward trend with no positive catalyst.">>
    ELSE <<"Hold", "Market is sideways. No clear signal.">>

\* (mutation) a decision table whose up-leg trap row reuses the flat rationale
calculate_verdictSharedRationale(growth_pct, sentiment_score) ==
    IF growth_pct > 200
    THEN IF FracGT(sentiment_score, 1, 5)
         THEN <<"Strong Buy", "Price trend is strong and news is positive.">>
         ELSE IF FracLT(sentiment_score, -1, 5)
         THEN <<"Hold", "Market is sideways. No clear signal.">>
         ELSE <<"Buy", "Technical trend is up, neutral news.">>
    ELSE IF growth_pct < -200
    THEN IF FracGT(sentiment_score, 1, 2)
         THEN <<"Buy", "Price is falling but news is very positive. Value buy opportunity.">>
         ELSE IF FracLT(sentiment_score, -1, 5)
         THEN <<"Strong Sell", "Falling price and bad news. Get out.">>
         ELSE <<"Sell", "Downward trend with no positive catalyst.">>
    ELSE <<"Hold", "Market is sideways. No clear signal.">>

\* (mutation) a decision table that sells a falling price on very good news
calculate_verdictContrarian(growth_pct, sentiment_score) ==
    IF growth_pct > 200
    THEN IF FracGT(sentiment_score, 1, 5)
         THEN <<"Strong Buy", "Price trend is strong and news is positive.">>
         ELSE IF FracLT(sentiment_score, -1, 5)
         THEN <<"Hold", "Math says UP, but bad news suggests a trap. Wait.">>
         ELSE <<"Buy", "Technical trend is up, neutral news.">>
    ELSE IF growth_pct < -200
    THEN IF FracGT(sentiment_score, 1, 2)
         THEN <<"Strong Sell", "Falling price and bad news. Get out.">>
         ELSE IF FracLT(sentiment_score, -1, 5)
         THEN <<"Buy", "Price is falling but news is very positive. Value buy opportunity.">>
         ELSE <<"Sell", "Downward trend with no positive catalyst.">>
    ELSE <<"Hold", "Market is sideways. No clear signal.">>

calculate_verdict(growth_pct, sentiment_score) ==
    IF growth_pct > 200
    THEN IF FracGT(sentiment_score, 1, 5)
         THEN <<"Strong Buy", "Price trend is strong and news is positive.">>
         ELSE IF FracLT(sentiment_score, -1, 5)
         THEN <<"Hold", "Math says UP, but bad news suggests a trap. Wait.">>
         ELSE <<"Buy", "Technical trend is up, neutral news.">>
    ELSE IF growth_pct < -200
    THEN IF FracGT(sentiment_score, 1, 2)
         THEN <<"Buy", "Price is falling but news is very positive. Value buy opportunity.">>
         ELSE IF FracLT(sentiment_score, -1, 5)
         THEN <<"Strong Sell", "Falling price and bad news. Get out.">>
         ELSE <<"Sell", "Downward trend with no positive catalyst.">>
    ELSE <<"Hold", "Market is sideways. No clear signal.">>

\* (mutation) an aggregate that weights each headline by its confidence score
RECURSIVE SentimentTotalWeighted(_)
SentimentTotalWeighted(items) ==
    IF items = <<>> THEN 0
    ELSE (IF Head(items).sentiment = "positive" THEN Head(items).score
          ELSE IF Head(items).sentiment = "negative" THEN -Head(items).score ELSE 0)
         + SentimentTotalWeighted(Tail(items))

\* analyze_asset, step 4: the aggregate sentiment of a list of NewsItem
RECURSIVE SentimentTotal(_)
SentimentTotal(items) ==
    IF items = <<>> THEN 0
    ELSE (IF Head(items).sentiment = "positive" THEN 1
          ELSE IF Head(items).sentiment = "negative" THEN -1 ELSE 0)
         + SentimentTotal(Tail(items))

\* (mutation) a sentiment that takes the absence of bad news for good news
NormalizedSentimentOptimistic(items) ==
    IF items = <<>> THEN Frac(1, 1)
    ELSE Frac(Len(SelectSeq(items, LAMBDA item : item.sentiment # "negative")),
              Len(items))

\* lines 75-77
NormalizedSentiment(items) ==
    IF items = <<>> THEN Frac(0, 1)
    ELSE Frac(SentimentTotal(items), Len(items))

\* the except clauses of analyze_asset
ErrorResponse(e) ==
    IF e.type = "ValueError"
    THEN [status |-> 400, detail |-> e.msg, result |-> <<>>]
    ELSE [status |-> 500, detail |-> InternalMsg, result |-> <<>>]

OkResponse(body) == [status |-> 200, detail |-> "", result |-> <<body>>]
NoResponse == [status |-> 0, detail |-> "", result |-> <<>>]

----------------------------------------------------------------------------
(* app/services/news_engine.py *)

_get_search_query(symbol, asset_name, asset_type) ==
    IF asset_type = "gold" THEN "Gold Price India"
    ELSE IF asset_type = "mutual_fund" THEN asset_name \o " Mutual Fund"
    ELSE asset_name \o " share news"

\* what the news source answers to a query for which it holds n headlines:
\* the title of a headline names the query and its rank in the source's order
SourceResults(query, n) == [i \in 1..n |-> [title |-> <<query, i>>]]


\* what self.classifier(title)[0] may do: raise, or return a label and a score
ClassifierOutcomes ==
    {[raised |-> TRUE, label |-> "neutral", score |-> 0]}
    \cup {[raised |-> FALSE, label |-> "positive", score |-> 904],
          [raised |-> FALSE, label |-> "negative", score |-> 876],
          [raised |-> FALSE, label |-> "neutral", score |-> 512]}

\* the label and score the loop body ends with (lines 59-69)
ClassifiedLabel(outcome) ==
    IF classifier = "None" \/ outcome.raised THEN "neutral" ELSE outcome.label
ClassifiedScore(outcome) ==
    IF classifier = "None" \/ outcome.raised THEN 0 ELSE outcome.score

\* lines 71-83: the NewsItem of one headline
AnalyzeHeadline(item, outcome) ==
    LET sentiment_result == ClassifiedLabel(outcome)
        sentiment_enum ==
            IF sentiment_result = "positive" THEN "positive"
            ELSE IF sentiment_result = "negative" THEN "negative"
            ELSE "neutral"
    IN  NewsItem(item.title, sentiment_enum, Round2(ClassifiedScore(outcome)))

----------------------------------------------------------------------------
(* app/services/prediction_engine.py *)

Row(ds, y) == [ds |-> ds, y |-> y]

\* the price of the k-th oldest observed day
Price(k) == BasePrice + 253 * (k % 4)

\* what the source holds for a symbol with n observed days, the last one today:
\* Yahoo Finance answers oldest first, MFAPI newest first
RawHistory(asset_type, n) ==
    IF asset_type = "mutual_fund"
    THEN [i \in 1..n |-> Row(Today - i + 1, Price(n - i + 1))]
    ELSE [i \in 1..n |-> Row(Today - n + i, Price(i))]

\* df.sort_values(by='ds')
RECURSIVE InsertByDs(_, _)
InsertByDs(row, sorted) ==
    IF sorted = <<>> THEN <<row>>
    ELSE IF row.ds < Head(sorted).ds THEN <<row>> \o sorted
    ELSE <<Head(sorted)>> \o InsertByDs(row, Tail(sorted))
RECURSIVE SortByDs(_)
SortByDs(df) ==
    IF df = <<>> THEN <<>> ELSE InsertByDs(Head(df), SortByDs(Tail(df)))

RecentEnough(row) == row.ds > Today - CutoffDays

\* (mutation) a _fetch_history that keeps the order in which MFAPI answers
FrameOfUnsorted(asset_type, raw) ==
    IF asset_type = "mutual_fund"
    THEN SelectSeq(raw, RecentEnough)
    ELSE raw

\* _fetch_history when the source answers (lines 18-40)
FrameOf(asset_type, raw) ==
    IF asset_type = "mutual_fund"
    THEN SortByDs(SelectSeq(raw, RecentEnough))
    ELSE raw

\* _fetch_history: a source that raises is caught and an empty frame returned
_fetch_history(asset_type, raised, n) ==
    IF raised THEN <<>> ELSE FrameOf(asset_type, RawHistory(asset_type, n))

\* line 53: df.empty or len(df) < 30
InsufficientData(df) == df = <<>> \/ Len(df) < MinHistory

\* Prophet as a black box: model.predict(future) has one row per observed day
\* and ForecastPeriods more, one per following day, trending by slope
\* thousandths over the ForecastPeriods days
ForecastFrame(df, slope) ==
    LET n == Len(df)
        last == df[n]
    IN  [i \in 1..(n + ForecastPeriods) |->
            IF i <= n
            THEN [ds |-> df[i].ds, yhat |-> df[i].y,
                  yhat_lower |-> df[i].y - Band, yhat_upper |-> df[i].y + Band]
            ELSE [ds |-> last.ds + (i - n), yhat |-> last.y + (slope * (i - n)) \div ForecastPeriods,
                  yhat_lower |-> last.y + (slope * (i - n)) \div ForecastPeriods - Band,
                  yhat_upper |-> last.y + (slope * (i - n)) \div ForecastPeriods + Band]]

\* recent_data['y'].pct_change(), in units of 1e-5
PctChanges(recent) ==
    [k \in 1..(Len(recent) - 1) |->
        RoundDiv((recent[k + 1].y - recent[k].y) * 100000, recent[k].y)]

SquareEach(s) == [k \in 1..Len(s) |-> s[k] * s[k]]

\* lines 67-69: sample standard deviation of the returns, times 100
Volatility(df) ==
    LET r == PctChanges(TailN(df, HistoryWindow))
        m == Len(r)
        sumsq == SumSeq(SquareEach(r))
        sum == SumSeq(r)
        var == (sumsq * m - sum * sum) \div (m * (m - 1))
    IN  ISqrt(var) \div 10

\* (mutation) a risk score without the cap
RiskScoreUnclamped(volatility) == volatility * 2

\* line 73
RiskScore(volatility) == Min(volatility * 2, 1000)

\* line 107: the risk_score of the metrics, in tenths
ReportedRisk(volatility) == Round1(RiskScore(volatility))

\* (mutation) growth measured against the forecast price
GrowthPctOfFuture(current_price, future_price) ==
    RoundDiv((future_price - current_price) * 10000, future_price)

\* lines 78 and 106: round(growth_pct, 2), in hundredths of a percent
GrowthPct(current_price, future_price) ==
    RoundDiv((future_price - current_price) * 10000, current_price)

\* (mutation) history points that carry the observed price as their bounds
HistoryPointsWithBounds(df) ==
    LET history_slice == TailN(df, HistoryWindow)
    IN  [k \in 1..Len(history_slice) |->
            PredictionPoint(history_slice[k].ds, Round2(history_slice[k].y),
                            "history", <<Round2(history_slice[k].y)>>,
                            <<Round2(history_slice[k].y)>>)]

\* lines 84-90: the last 30 observed rows
HistoryPoints(df) ==
    LET history_slice == TailN(df, HistoryWindow)
    IN  [k \in 1..Len(history_slice) |->
            PredictionPoint(history_slice[k].ds, Round2(history_slice[k].y),
                            "history", <<>>, <<>>)]

ForecastPoints(forecast) ==
    LET future_slice == TailN(forecast, ForecastPeriods)
    IN  [k \in 1..Len(future_slice) |->
            PredictionPoint(future_slice[k].ds, Round2(future_slice[k].yhat),
                            "forecast",
                            <<Round2(future_slice[k].yhat_lower)>>,
                            <<Round2(future_slice[k].yhat_upper)>>)]

\* run_forecast after the length check, when fit and predict return (lines 61-110)
ForecastResult(df, slope) ==
    LET forecast == ForecastFrame(df, slope)
        current_price == df[Len(df)].y
        future_price == forecast[Len(forecast)].yhat
    IN  [points |-> HistoryPoints(df) \o ForecastPoints(forecast),
         metrics |-> MetricCard(Round2(current_price), Round2(future_price),
                                GrowthPct(current_price, future_price),
                                ReportedRisk(Volatility(df)))]

----------------------------------------------------------------------------
(* The environment: what the external collaborators may answer *)

SeriesLens == {0, MinHistory - 1, MinHistory, MaxSeriesLen}
FetchOutcomes ==
    {[raised |-> TRUE, n |-> 0]} \cup {[raised |-> FALSE, n |-> k] : k \in SeriesLens}

\* trend of the forecast over its 30 days, in thousandths: falling, flat, rising
Slopes == {-6030, 0, 6030}
FitOutcomes ==
    {[raised |-> TRUE, type |-> t, slope |-> 0] : t \in ExcTypes}
    \cup {[raised |-> FALSE, type |-> "", slope |-> s] : s \in Slopes}

SearchOutcomes(maxResults) ==
    {[raised |-> TRUE, type |-> t, n |-> 0] : t \in ExcTypes}
    \cup {[raised |-> FALSE, type |-> "", n |-> k] : k \in 0..maxResults}

\* the answers the collaborators may give in a run
Env(fetches, fits, searches, classifications) ==
    [fetch |-> fetches, fit |-> fits, search |-> searches, classify |-> classifications]

\* the classifier is not called when it failed to load
OutcomesFor(outcomes) ==
    IF classifier = "None" THEN {[raised |-> FALSE, label |-> "", score |-> 0]}
    ELSE outcomes

----------------------------------------------------------------------------
(* State *)

Pending == [state |-> "pending", value |-> <<>>, exc |-> <<>>]
Returned(v) == [state |-> "returned", value |-> <<v>>, exc |-> <<>>]
Raised(e) == [state |-> "raised", value |-> <<>>, exc |-> <<e>>]

SymbolOf(r) == IF r = "A" THEN "ACME.NS" ELSE "BETA.NS"
NameOf(r) == IF r = "A" THEN "Acme" ELSE "Beta"

IdleMath ==
    [pc |-> "idle", df |-> <<>>, fetch_raised |-> FALSE, outcome |-> "",
     future_price |-> <<>>]
IdleNews ==
    [pc |-> "idle", query |-> "", fetched |-> <<>>, results |-> <<>>,
     outcomes |-> <<>>, analyzed_news |-> <<>>]

\* the module is imported (the engines are constructed, FinBERT loads or fails
\* to load) and each request has arrived with its parameters
InitWith(types) ==
    /\ classifier \in {"loaded", "None"}
    /\ googlenews = <<>>
    /\ req \in [Requests -> [asset_type : types, symbol : {"ACME.NS", "BETA.NS"},
                             asset_name : {"Acme", "Beta"}]]
    /\ \A r \in Requests : req[r].symbol = SymbolOf(r) /\ req[r].asset_name = NameOf(r)
    /\ orch = [r \in Requests |-> [pc |-> "start", sentiment |-> <<>>]]
    /\ math = [r \in Requests |-> IdleMath]
    /\ news = [r \in Requests |-> IdleNews]
    /\ fut = [r \in Requests |-> [p \in Pipelines |-> Pending]]
    /\ completed = [r \in Requests |-> <<>>]
    /\ response = [r \in Requests |-> NoResponse]

\* no direct call of calculate_verdict is made
NoCall == [growth_pct |-> 0, sentiment_score |-> Frac(0, 1), result |-> <<>>]

\* a future completes: the event loop sees completions in this order
Complete(r, p, f) ==
    /\ fut' = [fut EXCEPT ![r][p] = f]
    /\ completed' = [completed EXCEPT ![r] = Append(@, p)]

----------------------------------------------------------------------------
(* analyze_asset *)

\* line 57: loop.run_in_executor(None, prediction_engine.run_forecast, ...)
DispatchMath(r) ==
    /\ orch[r].pc = "start"
    /\ orch' = [orch EXCEPT ![r].pc = "math_dispatched"]
    /\ math' = [math EXCEPT ![r].pc = "fetch"]
    /\ UNCHANGED <<call, classifier, googlenews, req, news, fut, completed, response>>

\* line 60: loop.run_in_executor(None, news_engine.fetch_and_analyze, ...)
DispatchNews(r) ==
    /\ orch[r].pc = "math_dispatched"
    /\ orch' = [orch EXCEPT ![r].pc = "join"]
    /\ news' = [news EXCEPT ![r].pc = "clear"]
    /\ UNCHANGED <<call, classifier, googlenews, req, math, fut, completed, response>>

AnyRaised(r) == \E p \in Pipelines : fut[r][p].state = "raised"
AllReturned(r) == \A p \in Pipelines : fut[r][p].state = "returned"

\* (mutation) a join that resumes as soon as either future is done
JoinReadyFirstDone(r) == \E p \in Pipelines : fut[r][p].state # "pending"

\* (mutation) a join that resumes only when both futures are done
JoinReadyBothDone(r) == \A p \in Pipelines : fut[r][p].state # "pending"

\* (mutation) a join that resumes only when both futures have a result
JoinReadyAllReturned(r) == AllReturned(r)

\* asyncio.gather without return_exceptions: the awaiting coroutine resumes when
\* every future has a result or as soon as one has an exception
JoinReady(r) == AnyRaised(r) \/ AllReturned(r)

\* the exception gather propagates: that of the first future to fail
RECURSIVE FirstRaised(_, _)
FirstRaised(r, order) ==
    IF fut[r][Head(order)].state = "raised" THEN Head(order)
    ELSE FirstRaised(r, Tail(order))

\* line 63 and, when gather raises, the except clauses of lines 92-97
Join(r) ==
    /\ orch[r].pc = "join"
    /\ JoinReady(r)
    /\ IF AnyRaised(r)
       THEN /\ response' = [response EXCEPT ![r] =
                   ErrorResponse(fut[r][FirstRaised(r, completed[r])].exc[1])]
            /\ orch' = [orch EXCEPT ![r].pc = "done"]
       ELSE /\ orch' = [orch EXCEPT ![r].pc = "joined"]
            /\ UNCHANGED response
    /\ UNCHANGED <<call, classifier, googlenews, req, math, news, fut, completed>>

\* (mutation) a verdict decided on the growth before it is rounded: any excess
\* over a hundredth of a percent counts
AssembleUnroundedGrowth(r) ==
    /\ orch[r].pc = "joined"
    /\ LET points == fut[r]["math"].value[1].points
           metrics == fut[r]["math"].value[1].metrics
           news_items == fut[r]["news"].value[1]
           normalized_sentiment == NormalizedSentiment(news_items)
           current_price == math[r].df[Len(math[r].df)].y
           future_price == math[r].future_price[1]
           growth_pct == -((-(future_price - current_price) * 10000) \div current_price)
           verdict == calculate_verdict(growth_pct, normalized_sentiment)
       IN  /\ response' = [response EXCEPT ![r] =
                  OkResponse(AssetAnalysisResponse(req[r].symbol, req[r].asset_name,
                             verdict[1], verdict[2], points, news_items, metrics))]
           /\ orch' = [orch EXCEPT ![r] =
                  [pc |-> "done", sentiment |-> <<normalized_sentiment>>]]
    /\ UNCHANGED <<call, classifier, googlenews, req, math, news, fut, completed>>

\* lines 65-90: aggregate the sentiment, decide, build the response
Assemble(r) ==
    /\ orch[r].pc = "joined"
    /\ LET points == fut[r]["math"].value[1].points
           metrics == fut[r]["math"].value[1].metrics
           news_items == fut[r]["news"].value[1]
           normalized_sentiment == NormalizedSentiment(news_items)
           verdict == calculate_verdict(metrics.growth_percentage, normalized_sentiment)
       IN  /\ response' = [response EXCEPT ![r] =
                  OkResponse(AssetAnalysisResponse(req[r].symbol, req[r].asset_name,
                             verdict[1], verdict[2], points, news_items, metrics))]
           /\ orch' = [orch EXCEPT ![r] =
                  [pc |-> "done", sentiment |-> <<normalized_sentiment>>]]
    /\ UNCHANGED <<call, classifier, googlenews, req, math, news, fut, completed>>

----------------------------------------------------------------------------
(* PredictionEngine.run_forecast, in its executor thread *)

\* line 51: df = self._fetch_history(symbol, asset_type)
MathFetch(r, outcomes) ==
    /\ math[r].pc = "fetch"
    /\ \E o \in outcomes :
          math' = [math EXCEPT ![r] =
              [pc |-> "check", df |-> _fetch_history(req[r].asset_type, o.raised, o.n),
               fetch_raised |-> o.raised, outcome |-> "", future_price |-> <<>>]]
    /\ UNCHANGED <<call, classifier, googlenews, req, orch, news, fut, completed, response>>

\* (mutation) a run_forecast that answers a short series with an empty result
\* instead of raising
MathForecastLenient(r, outcomes) ==
    /\ math[r].pc = "check"
    /\ IF InsufficientData(math[r].df)
       THEN /\ math' = [math EXCEPT ![r].pc = "done", ![r].outcome = "insufficient"]
            /\ Complete(r, "math",
                   Returned([points |-> <<>>, metrics |-> MetricCard(0, 0, 0, 0)]))
       ELSE \E o \in outcomes :
              IF o.raised
              THEN /\ math' = [math EXCEPT ![r].pc = "done", ![r].outcome = "fit_raised"]
                   /\ Complete(r, "math", Raised(Exc(o.type, ProviderText)))
              ELSE /\ math' = [math EXCEPT ![r].pc = "done", ![r].outcome = "ok",
                                 ![r].future_price =
                                     <<ForecastFrame(math[r].df, o.slope)
                                           [Len(math[r].df) + ForecastPeriods].yhat>>]
                   /\ Complete(r, "math", Returned(ForecastResult(math[r].df, o.slope)))
    /\ UNCHANGED <<call, classifier, googlenews, req, orch, news, response>>

\* lines 53-110: the length check, fit, predict and packaging
MathForecast(r, outcomes) ==
    /\ math[r].pc = "check"
    /\ IF InsufficientData(math[r].df)
       THEN /\ math' = [math EXCEPT ![r].pc = "done", ![r].outcome = "insufficient"]
            /\ Complete(r, "math", Raised(Exc("ValueError", NotEnoughMsg)))
       ELSE \E o \in outcomes :
              IF o.raised
              THEN /\ math' = [math EXCEPT ![r].pc = "done", ![r].outcome = "fit_raised"]
                   /\ Complete(r, "math", Raised(Exc(o.type, ProviderText)))
              ELSE /\ math' = [math EXCEPT ![r].pc = "done", ![r].outcome = "ok",
                                 ![r].future_price =
                                     <<ForecastFrame(math[r].df, o.slope)
                                           [Len(math[r].df) + ForecastPeriods].yhat>>]
                   /\ Complete(r, "math", Returned(ForecastResult(math[r].df, o.slope)))
    /\ UNCHANGED <<call, classifier, googlenews, req, orch, news, response>>

----------------------------------------------------------------------------
(* NewsEngine.fetch_and_analyze, in its executor thread *)

\* lines 40-44: build the query, self.googlenews.clear()
NewsClear(r) ==
    /\ news[r].pc = "clear"
    /\ googlenews' = <<>>
    /\ news' = [news EXCEPT ![r].pc = "search",
                  ![r].query = _get_search_query(req[r].symbol, req[r].asset_name,
                                                 req[r].asset_type)]
    /\ UNCHANGED <<call, classifier, req, orch, math, fut, completed, response>>

\* line 45: self.googlenews.search(query) appends what the source answers to
\* the client's result list, or raises when the source cannot be reached
NewsSearch(r, outcomes) ==
    /\ news[r].pc = "search"
    /\ \E o \in outcomes :
          IF o.raised
          THEN /\ news' = [news EXCEPT ![r].pc = "done"]
               /\ Complete(r, "news", Raised(Exc(o.type, ProviderText)))
               /\ UNCHANGED googlenews
          ELSE /\ googlenews' = googlenews \o SourceResults(news[r].query, o.n)
               /\ news' = [news EXCEPT ![r].pc = "result",
                             ![r].fetched = <<SourceResults(news[r].query, o.n)>>]
               /\ UNCHANGED <<fut, completed>>
    /\ UNCHANGED <<call, classifier, req, orch, math, response>>

\* (mutation) a fetch_and_analyze that treats an empty result list as an error
NewsResultRaisesOnEmpty(r) ==
    /\ news[r].pc = "result"
    /\ LET results == Take(googlenews, TopN)
       IN  IF results = <<>>
           THEN /\ news' = [news EXCEPT ![r].pc = "done"]
                /\ Complete(r, "news", Raised(Exc("ValueError", "No news found")))
           ELSE /\ news' = [news EXCEPT ![r].pc = "classify", ![r].results = results]
                /\ UNCHANGED <<fut, completed>>
    /\ UNCHANGED <<call, classifier, googlenews, req, orch, math, response>>

\* (mutation) a fetch_and_analyze that keeps every result of the source
NewsResultNoCut(r) ==
    /\ news[r].pc = "result"
    /\ LET results == googlenews
       IN  IF results = <<>>
           THEN /\ news' = [news EXCEPT ![r].pc = "done"]
                /\ Complete(r, "news", Returned(<<>>))
           ELSE /\ news' = [news EXCEPT ![r].pc = "classify", ![r].results = results]
                /\ UNCHANGED <<fut, completed>>
    /\ UNCHANGED <<call, classifier, googlenews, req, orch, math, response>>

\* lines 46-52: results = self.googlenews.result()[:5]; return [] when empty
NewsResult(r) ==
    /\ news[r].pc = "result"
    /\ LET results == Take(googlenews, TopN)
       IN  IF results = <<>>
           THEN /\ news' = [news EXCEPT ![r].pc = "done"]
                /\ Complete(r, "news", Returned(<<>>))
           ELSE /\ news' = [news EXCEPT ![r].pc = "classify", ![r].results = results]
                /\ UNCHANGED <<fut, completed>>
    /\ UNCHANGED <<call, classifier, googlenews, req, orch, math, response>>

\* (mutation) a loop body without the try/except around the classifier call
NewsClassifyNoCatch(r, outcomes) ==
    /\ news[r].pc = "classify"
    /\ \E o \in OutcomesFor(outcomes) :
          LET item == news[r].results[Len(news[r].analyzed_news) + 1]
              analyzed_news == Append(news[r].analyzed_news, AnalyzeHeadline(item, o))
          IN  IF o.raised
              THEN /\ news' = [news EXCEPT ![r].pc = "done", ![r].outcomes = Append(@, o)]
                   /\ Complete(r, "news", Raised(Exc("ConnectionError", ProviderText)))
              ELSE IF Len(analyzed_news) < Len(news[r].results)
              THEN /\ news' = [news EXCEPT ![r].analyzed_news = analyzed_news,
                                 ![r].outcomes = Append(@, o)]
                   /\ UNCHANGED <<fut, completed>>
              ELSE /\ news' = [news EXCEPT ![r].pc = "done",
                                 ![r].analyzed_news = analyzed_news,
                                 ![r].outcomes = Append(@, o)]
                   /\ Complete(r, "news", Returned(analyzed_news))
    /\ UNCHANGED <<call, classifier, googlenews, req, orch, math, response>>

\* lines 55-85: one iteration of the loop, and the return after the last one
NewsClassify(r, outcomes) ==
    /\ news[r].pc = "classify"
    /\ \E o \in OutcomesFor(outcomes) :
          LET item == news[r].results[Len(news[r].analyzed_news) + 1]
              analyzed_news == Append(news[r].analyzed_news, AnalyzeHeadline(item, o))
          IN  IF Len(analyzed_news) < Len(news[r].results)
              THEN /\ news' = [news EXCEPT ![r].analyzed_news = analyzed_news,
                                 ![r].outcomes = Append(@, o)]
                   /\ UNCHANGED <<fut, completed>>
              ELSE /\ news' = [news EXCEPT ![r].pc = "done",
                                 ![r].analyzed_news = analyzed_news,
                                 ![r].outcomes = Append(@, o)]
                   /\ Complete(r, "news", Returned(analyzed_news))
    /\ UNCHANGED <<call, classifier, googlenews, req, orch, math, response>>

----------------------------------------------------------------------------
(* Specifications *)

Step(r, env) ==
    \/ DispatchMath(r)
    \/ DispatchNews(r)
    \/ Join(r)
    \/ Assemble(r)
    \/ MathFetch(r, env.fetch)
    \/ MathForecast(r, env.fit)
    \/ NewsClear(r)
    \/ NewsSearch(r, env.search)
    \/ NewsResult(r)
    \/ NewsClassify(r, env.classify)

\* one request, served alone
Init == InitWith(AssetTypes) /\ req["B"].asset_type = "stock" /\ call = NoCall
Next ==
    Step("A", Env(FetchOutcomes, FitOutcomes, SearchOutcomes(MaxResults),
                  ClassifierOutcomes))
Spec == Init /\ [][Next]_vars

\* the news pipeline of one request on its own
NextNews ==
    \/ DispatchMath("A")
    \/ DispatchNews("A")
    \/ NewsClear("A")
    \/ NewsSearch("A", SearchOutcomes(MaxResultsNews))
    \/ NewsResult("A")
    \/ NewsClassify("A", ClassifierOutcomes)
SpecNews == Init /\ [][NextNews]_vars

\* one request for a stock whose forecast succeeds, with every classification
\* of up to TopN headlines
AggFetches == {o \in FetchOutcomes : ~o.raised /\ o.n = MinHistory}
AggFits == {o \in FitOutcomes : o.slope > 0}
AggSearches == {o \in SearchOutcomes(MaxResultsNews) : ~o.raised}
InitAgg == InitWith({"stock"}) /\ classifier = "loaded" /\ call = NoCall
NextAgg == Step("A", Env(AggFetches, AggFits, AggSearches, ClassifierOutcomes))
SpecAgg == InitAgg /\ [][NextAgg]_vars

\* one request whose series is long enough and whose fit returns, with
\* forecasts that end a little and a lot away from the last observed price
DriftFetches == {o \in FetchOutcomes : ~o.raised /\ o.n >= MinHistory}
DriftSlopes == {-6030, -6, -4, 0, 4, 2011, 2016, 6030}
DriftFits == {[raised |-> FALSE, type |-> "", slope |-> s] : s \in DriftSlopes}
DriftSearches == {o \in SearchOutcomes(MaxResults) : ~o.raised}
NextDrift == Step("A", Env(DriftFetches, DriftFits, DriftSearches, ClassifierOutcomes))
SpecDrift == Init /\ [][NextDrift]_vars

\* calculate_verdict called on its own, as a unit test does: growth in
\* hundredths of a percent, sentiment in hundredths
GrowthInputs == {-500, -300, -201, -200, -199, 0, 50, 199, 200, 201, 500}
SentimentInputs ==
    {Frac(n, 100) : n \in {-100, -60, -21, -20, -19, 0, 19, 20, 21, 30, 50, 51, 60,
                           90, 100}}
CallVerdict ==
    /\ call.result = <<>>
    /\ call' = [call EXCEPT !.result =
                   <<calculate_verdict(call.growth_pct, call.sentiment_score)>>]
    /\ UNCHANGED <<classifier, googlenews, req, orch, math, news, fut, completed,
                   response>>
InitVerdict ==
    /\ InitWith({"stock"})
    /\ classifier = "loaded"
    /\ call \in [growth_pct : GrowthInputs, sentiment_score : SentimentInputs,
                  result : {<<>>}]
NextVerdict == CallVerdict
SpecVerdict == InitVerdict /\ [][NextVerdict]_vars

\* calculate_verdict called twice, on two pairs of arguments
CallVerdictTwice ==
    /\ call.result = <<>>
    /\ call' = [call EXCEPT !.result =
                   << <<calculate_verdict(call.growth_pct[1], call.sentiment_score[1]),
                        calculate_verdict(call.growth_pct[2], call.sentiment_score[2])>> >>]
    /\ UNCHANGED <<classifier, googlenews, req, orch, math, news, fut, completed,
                   response>>
InitVerdictPair ==
    /\ InitWith({"stock"})
    /\ classifier = "loaded"
    /\ call \in [growth_pct : GrowthInputs \X GrowthInputs,
                  sentiment_score : SentimentInputs \X SentimentInputs,
                  result : {<<>>}]
NextVerdictPair == CallVerdictTwice
SpecVerdictPair == InitVerdictPair /\ [][NextVerdictPair]_vars

\* _get_search_query called on its own
SymbolInputs == {"ACME.NS", "GC=F", "119551"}
NameInputs == {"Acme", "Beta", "Gold", "SBI", "Axis Bluechip", "Small Cap"}
CallQuery ==
    /\ call.result = <<>>
    /\ call' = [call EXCEPT !.result =
                   <<_get_search_query(call.symbol, call.asset_name, call.asset_type)>>]
    /\ UNCHANGED <<classifier, googlenews, req, orch, math, news, fut, completed,
                   response>>
InitQuery ==
    /\ InitWith({"stock"})
    /\ classifier = "loaded"
    /\ call \in [symbol : SymbolInputs, asset_name : NameInputs,
                  asset_type : AssetTypes, result : {<<>>}]
NextQuery == CallQuery
SpecQuery == InitQuery /\ [][NextQuery]_vars

\* the risk score of two volatilities, in hundredths of a percent
VolatilityInputs == {0, 1, 3, 123, 249, 250, 251, 499, 500, 501, 1000, 2000}
CallRisk ==
    /\ call.result = <<>>
    /\ call' = [call EXCEPT !.result =
                   << <<ReportedRisk(call.volatility[1]),
                        ReportedRisk(call.volatility[2])>> >>]
    /\ UNCHANGED <<classifier, googlenews, req, orch, math, news, fut, completed,
                   response>>
InitRisk ==
    /\ InitWith({"stock"})
    /\ classifier = "loaded"
    /\ call \in [volatility : VolatilityInputs \X VolatilityInputs, result : {<<>>}]
NextRisk == CallRisk
SpecRisk == InitRisk /\ [][NextRisk]_vars

\* two requests for different stocks served concurrently by the same process,
\* with one answer of each kind from every collaborator
ConcFetches == {o \in FetchOutcomes : o.raised \/ o.n = MinHistory}
ConcFits == {o \in FitOutcomes : o.type = "ConnectionError" \/ o.slope > 0}
ConcSearches ==
    {o \in SearchOutcomes(MaxResultsConc) : o.type = "ConnectionError" \/ o.n > 0}
ConcClassifications == {o \in ClassifierOutcomes : o.label = "positive"}
InitConc == InitWith({"stock"}) /\ classifier = "loaded" /\ call = NoCall
NextConc ==
    \E r \in Requests :
        Step(r, Env(ConcFetches, ConcFits, ConcSearches, ConcClassifications))
SpecConc == InitConc /\ [][NextConc]_vars

\* two concurrent requests where the event loop runs every ready coroutine, the
\* executor runs every submitted call and the collaborators answer (the news
\* source with an error or with one headline)
FairSearches == {o \in ConcSearches : o.n <= 1}
NextFair ==
    \E r \in Requests :
        Step(r, Env(ConcFetches, ConcFits, FairSearches, ConcClassifications))
FairConc ==
    /\ InitConc /\ [][NextFair]_vars
    /\ \A r \in Requests :
           WF_vars(Step(r, Env(ConcFetches, ConcFits, FairSearches, ConcClassifications)))

\* two requests that do not overlap: B arrives after A has been answered
NextSeq ==
    \/ Step("A", Env(ConcFetches, ConcFits, ConcSearches, ConcClassifications))
    \/ /\ response["A"].status # 0
       /\ Step("B", Env(ConcFetches, ConcFits, ConcSearches, ConcClassifications))
SpecSeq == InitConc /\ [][NextSeq]_vars

----------------------------------------------------------------------------
(* Properties *)

Responded(r) == response[r].status # 0
Succeeded(r) == response[r].status = 200
Body(r) == response[r].result[1]
MathValue(r) == fut[r]["math"].value[1]
NewsValue(r) == fut[r]["news"].value[1]

\* C1: when the news pipeline raised and the forecast pipeline returned, the
\* request is answered 200 with an empty news_feed and the verdict of the
\* decision table for the forecast's growth and sentiment 0.0.
C1_NewsFailureAbsorbed ==
    \A r \in Requests :
        (/\ orch[r].pc = "done"
         /\ fut[r]["news"].state = "raised"
         /\ fut[r]["math"].state = "returned")
        => /\ Succeeded(r)
           /\ Body(r).news_feed = <<>>
           /\ <<Body(r).verdict, Body(r).verdict_reason>> =
                  calculate_verdict(MathValue(r).metrics.growth_percentage, Frac(0, 1))

\* C2: when the market/NAV source raised during the fetch (and the news
\* pipeline returned), the request is answered 500 with the generic detail,
\* never with the insufficient-data 400.
C2_FetchFailureIs500 ==
    \A r \in Requests :
        (/\ orch[r].pc = "done"
         /\ math[r].fetch_raised
         /\ fut[r]["news"].state = "returned")
        => /\ response[r].status = 500
           /\ response[r].detail = InternalMsg

Titles(items) == [i \in 1..Len(items) |-> items[i].title]

\* C3: the list fetch_and_analyze returns to a request holds exactly the first
\* TopN headlines the source answered to that request's own search, whatever
\* the other request's thread does in between.
C3_NoInterference ==
    \A r \in Requests :
        fut[r]["news"].state = "returned"
        => Titles(NewsValue(r)) = Titles(Take(news[r].fetched[1], TopN))

\* C4 (first half): run_forecast raises the insufficient-data failure exactly
\* when the fetched series has fewer than MinHistory points.
C4_RaisedIffShort ==
    \A r \in Requests :
        math[r].pc = "done"
        => ((/\ fut[r]["math"].state = "raised"
             /\ fut[r]["math"].exc[1] = Exc("ValueError", NotEnoughMsg))
            <=> Len(math[r].df) < MinHistory)

\* C4: whenever run_forecast raised the insufficient-data failure, the request
\* is answered 400 with that failure's message and no AnalysisResult.
C4_InsufficientIs400 ==
    \A r \in Requests :
        (/\ orch[r].pc = "done"
         /\ math[r].outcome = "insufficient")
        => /\ response[r].status = 400
           /\ response[r].detail = NotEnoughMsg
           /\ response[r].result = <<>>

\* C5: an error response is a 400 only when run_forecast found fewer than
\* MinHistory points, and then carries that failure's message; every other
\* failure is a 500 with the generic detail, and no detail carries the text of
\* a provider's exception.
C5_OnlyGeneric500 ==
    \A r \in Requests :
        Responded(r) /\ ~Succeeded(r)
        => /\ response[r].detail # ProviderText
           /\ response[r].status = 400
                  => /\ math[r].outcome = "insufficient"
                     /\ response[r].detail = NotEnoughMsg
           /\ response[r].status = 500 => response[r].detail = InternalMsg

AllCompleted(r) == \A p \in Pipelines : fut[r][p].state # "pending"

\* C6: two requests whose pipelines ended with the same outcomes (the same
\* value returned or the same failure raised by each pipeline) receive the
\* same status and detail, in whatever order their pipelines completed.
C6_OrderIrrelevant ==
    \A r1, r2 \in Requests :
        (/\ AllCompleted(r1) /\ AllCompleted(r2)
         /\ orch[r1].pc = "done" /\ orch[r2].pc = "done"
         /\ fut[r1] = fut[r2])
        => /\ response[r1].status = response[r2].status
           /\ response[r1].detail = response[r2].detail

\* C7: both pipelines are dispatched before the orchestrator waits; it passes
\* the join only when both futures have a result or one has an exception; the
\* sentiment is aggregated, the verdict computed and a 200 built only when
\* both pipelines have returned.
C7_JoinWaitsForBoth ==
    \A r \in Requests :
        /\ orch[r].pc \in {"join", "joined", "done"}
               => math[r].pc # "idle" /\ news[r].pc # "idle"
        /\ orch[r].pc \in {"joined", "done"}
               => \/ \A p \in Pipelines : fut[r][p].state = "returned"
                  \/ \E p \in Pipelines : fut[r][p].state = "raised"
        /\ (orch[r].pc = "joined" \/ orch[r].sentiment # <<>> \/ Succeeded(r))
               => \A p \in Pipelines : fut[r][p].state = "returned"

\* the news pipeline finished first and the orchestrator answered 200 only
\* after the forecast pipeline had returned too
C7_Witness ==
    /\ Succeeded("A")
    /\ completed["A"] = <<"news", "math">>
    /\ Body("A").news_feed # <<>>

\* C8: when the forecast pipeline failed (short series, failed fetch, failed
\* fit) no AnalysisResult is returned; every AnalysisResult returned carries
\* the non-empty graph_data and the metrics of a forecast that succeeded.
C8_ForecastFailureFatal ==
    \A r \in Requests :
        /\ (math[r].outcome \in {"insufficient", "fit_raised"}
                \/ fut[r]["math"].state = "raised")
               => ~Succeeded(r) /\ response[r].result = <<>>
        /\ Succeeded(r)
               => /\ math[r].outcome = "ok"
                  /\ fut[r]["math"].state = "returned"
                  /\ Body(r).graph_data # <<>>
                  /\ Body(r).graph_data = MathValue(r).points
                  /\ Body(r).metrics = MathValue(r).metrics

\* the fit failed while the news pipeline returned headlines: the request
\* ended without an AnalysisResult
C8_Witness ==
    /\ math["A"].outcome = "fit_raised"
    /\ fut["A"]["news"].state = "returned"
    /\ NewsValue("A") # <<>>
    /\ orch["A"].pc = "done"
    /\ response["A"].status = 500

\* C9: with the classifier unavailable, a request whose news source answered
\* and whose forecast succeeded is answered 200 with an empty news_feed and a
\* sentiment input of exactly 0.
C9_ClassifierDownEmptyFeed ==
    \A r \in Requests :
        (/\ classifier = "None"
         /\ orch[r].pc = "done"
         /\ fut[r]["math"].state = "returned"
         /\ fut[r]["news"].state = "returned")
        => /\ Succeeded(r)
           /\ Body(r).news_feed = <<>>
           /\ orch[r].sentiment[1].num = 0

\* the headlines fetch_and_analyze works on when it runs alone
Retrieved(r) == Take(news[r].fetched[1], TopN)

\* one NewsItem per retrieved headline, in retrieval order, once the source
\* has answered
OnePerHeadline(r) ==
    /\ fut[r]["news"].state = "returned"
    /\ Len(NewsValue(r)) = Len(Retrieved(r))
    /\ \A i \in 1..Len(NewsValue(r)) : NewsValue(r)[i].title = Retrieved(r)[i].title

\* C10 as stated: a failed headline is neutral with score 0.0, every other
\* headline carries the label and the score its classification returned.
C10_ScoreAsReturned ==
    \A r \in Requests :
        (news[r].pc = "done" /\ news[r].fetched # <<>> /\ classifier = "loaded")
        => /\ OnePerHeadline(r)
           /\ \A i \in 1..Len(NewsValue(r)) :
                 IF news[r].outcomes[i].raised
                 THEN NewsValue(r)[i].sentiment = "neutral" /\ NewsValue(r)[i].score = 0
                 ELSE /\ NewsValue(r)[i].sentiment = news[r].outcomes[i].label
                      /\ NewsValue(r)[i].score * 10 = news[r].outcomes[i].score

\* C10 (amended): a classification failure never aborts the batch: there is
\* one NewsItem per retrieved headline, in retrieval order; a failed headline
\* is neutral with score 0.0, every other headline carries the label its
\* classification returned and that classification's score rounded to two
\* decimals.
C10_FailureIsolated ==
    \A r \in Requests :
        (news[r].pc = "done" /\ news[r].fetched # <<>>)
        => /\ OnePerHeadline(r)
           /\ classifier = "loaded"
                  => \A i \in 1..Len(NewsValue(r)) :
                        IF news[r].outcomes[i].raised
                        THEN /\ NewsValue(r)[i].sentiment = "neutral"
                             /\ NewsValue(r)[i].score = 0
                        ELSE /\ NewsValue(r)[i].sentiment = news[r].outcomes[i].label
                             /\ NewsValue(r)[i].score = Round2(news[r].outcomes[i].score)

\* five headlines were classified, the second and the fourth classification
\* raised, the others returned
C10_Witness ==
    /\ fut["A"]["news"].state = "returned"
    /\ Len(NewsValue("A")) = TopN
    /\ news["A"].outcomes[2].raised
    /\ news["A"].outcomes[4].raised
    /\ news["A"].outcomes[1].label = "positive"
    /\ news["A"].outcomes[3].label = "negative"
    /\ news["A"].outcomes[5].label = "neutral" /\ ~news["A"].outcomes[5].raised

\* C11: when the news source answers a search with zero results,
\* fetch_and_analyze returns the empty list without raising and without a
\* classifier call, and a request whose forecast returned is answered 200 with
\* an empty news_feed and a sentiment input of exactly 0.
C11_NoNewsIsNotAnError ==
    \A r \in Requests :
        news[r].fetched = << <<>> >>
        => /\ news[r].pc = "done"
                  => /\ fut[r]["news"] = Returned(<<>>)
                     /\ news[r].outcomes = <<>>
           /\ (orch[r].pc = "done" /\ fut[r]["math"].state = "returned")
                  => /\ Succeeded(r)
                     /\ Body(r).news_feed = <<>>
                     /\ orch[r].sentiment = <<Frac(0, 1)>>

\* the source had no headline, the classifier was loaded, the forecast rose:
\* the request was answered 200 with an empty feed
C11_Witness ==
    /\ news["A"].fetched = << <<>> >>
    /\ classifier = "loaded"
    /\ Succeeded("A")
    /\ Body("A").news_feed = <<>>
    /\ Body("A").verdict = "Buy"

CountOf(items, label) == Cardinality({i \in 1..Len(items) : items[i].sentiment = label})

\* C12: the sentiment passed to the verdict engine is (positive items minus
\* negative items) over all items, neutral items counting in the denominator
\* only and scores not at all; it lies in [-1, 1], is 0 for the empty list and
\* 0.4 for 3 positive, 1 negative and 1 neutral item.
C12_SentimentFormula ==
    \A r \in Requests :
        orch[r].sentiment # <<>>
        => LET s == orch[r].sentiment[1]
               items == Body(r).news_feed
               pos == CountOf(items, "positive")
               neg == CountOf(items, "negative")
           IN  /\ s.den > 0
               /\ s.num * Len(items) = (pos - neg) * s.den
               /\ items # <<>> => s.den = Len(items) /\ s.num = pos - neg
               /\ -s.den <= s.num /\ s.num <= s.den
               /\ items = <<>> => s.num = 0
               /\ (pos = 3 /\ neg = 1 /\ Len(items) = 5) => s.num * 10 = 4 * s.den

\* five headlines, 3 positive, 1 negative, 1 neutral: the sentiment is 2/5
C12_Witness ==
    /\ Succeeded("A")
    /\ Len(Body("A").news_feed) = 5
    /\ CountOf(Body("A").news_feed, "positive") = 3
    /\ CountOf(Body("A").news_feed, "negative") = 1
    /\ CountOf(Body("A").news_feed, "neutral") = 1
    /\ orch["A"].sentiment = <<Frac(2, 5)>>

Called == call.result # <<>>
Verdict == call.result[1][1]
Rationale == call.result[1][2]
\* the sentiment argument of the call compared with n/d
SentimentAbove(n, d) == call.sentiment_score.num * d > n * call.sentiment_score.den
SentimentBelow(n, d) == call.sentiment_score.num * d < n * call.sentiment_score.den

\* C13: calculate_verdict returns STRONG_BUY, with the rationale that names
\* the positive news, exactly when growth_percentage > 2.0 and sentiment > 0.2.
C13_StrongBuy ==
    Called
    => /\ (Verdict = "Strong Buy") <=> (call.growth_pct > 200 /\ SentimentAbove(1, 5))
       /\ Verdict = "Strong Buy"
              => Rationale = "Price trend is strong and news is positive."

\* growth 5.0 and sentiment 0.6 gave STRONG_BUY
C13_Witness ==
    /\ Called
    /\ call.growth_pct = 500 /\ call.sentiment_score = Frac(60, 100)
    /\ Verdict = "Strong Buy"

\* C14: for every growth_percentage in [-2.0, 2.0], the ends included,
\* calculate_verdict returns HOLD with the sideways rationale whatever the
\* sentiment.
C14_FlatBandHolds ==
    (Called /\ call.growth_pct >= -200 /\ call.growth_pct <= 200)
    => call.result = << <<"Hold", "Market is sideways. No clear signal.">> >>

\* growth exactly 2.0 with sentiment 0.9 gave HOLD
C14_Witness ==
    /\ Called
    /\ call.growth_pct = 200 /\ call.sentiment_score = Frac(90, 100)
    /\ Verdict = "Hold"

\* C15: for growth_percentage < -2.0 the verdict is BUY (value buy) exactly
\* when sentiment > 0.5, STRONG_SELL exactly when sentiment < -0.2, and SELL
\* otherwise.
C15_DownLeg ==
    (Called /\ call.growth_pct < -200)
    => /\ (Verdict = "Buy") <=> SentimentAbove(1, 2)
       /\ (Verdict = "Strong Sell") <=> SentimentBelow(-1, 5)
       /\ (Verdict = "Sell") <=> (~SentimentAbove(1, 2) /\ ~SentimentBelow(-1, 5))
       /\ Verdict = "Buy" =>
              Rationale = "Price is falling but news is very positive. Value buy opportunity."

\* growth -3.0 with sentiment exactly 0.5 gave SELL
C15_Witness ==
    /\ Called
    /\ call.growth_pct = -300 /\ call.sentiment_score = Frac(50, 100)
    /\ Verdict = "Sell"

\* C16: for growth_percentage > 2.0 the verdict is HOLD with the trap
\* rationale exactly when sentiment < -0.2, and BUY for every sentiment in
\* [-0.2, 0.2], the ends included.
C16_UpLeg ==
    (Called /\ call.growth_pct > 200)
    => /\ (Verdict = "Hold") <=> SentimentBelow(-1, 5)
       /\ Verdict = "Hold"
              => Rationale = "Math says UP, but bad news suggests a trap. Wait."
       /\ (~SentimentBelow(-1, 5) /\ ~SentimentAbove(1, 5)) => Verdict = "Buy"

\* growth 5.0 with sentiment exactly 0.2 gave BUY
C16_Witness ==
    /\ Called
    /\ call.growth_pct = 500 /\ call.sentiment_score = Frac(20, 100)
    /\ Verdict = "Buy"

\* C18: when the source answers n results, fetch_and_analyze returns exactly
\* min(n, 5) items, the i-th item carrying the title of the i-th result of the
\* source, and no result after the fifth is among them.
C18_FirstFiveInOrder ==
    \A r \in Requests :
        (news[r].fetched # <<>> /\ fut[r]["news"].state = "returned")
        => LET source == news[r].fetched[1]
               n == Len(source)
               items == NewsValue(r)
           IN  /\ Len(items) = Min(n, 5)
               /\ \A i \in 1..Len(items) : items[i].title = source[i].title
               /\ \A i \in 1..Len(items) :
                      \A j \in 6..n : items[i].title # source[j].title

\* the source answered six results and five items came back
C18_Witness ==
    /\ news["A"].fetched # <<>>
    /\ Len(news["A"].fetched[1]) = 6
    /\ fut["A"]["news"].state = "returned"
    /\ Len(NewsValue("A")) = 5

\* C19: when run_forecast returns, graph_data has exactly 60 points: the 30
\* most recent observed rows as history points, then 30 forecast points; dates
\* strictly ascend along the sequence and every forecast date is later than
\* every history date.
C19_SixtyPointsAscending ==
    \A r \in Requests :
        fut[r]["math"].state = "returned"
        => LET pts == MathValue(r).points
               df == math[r].df
               observed == {df[i].ds : i \in 1..Len(df)}
               shown == {pts[k].date : k \in 1..30}
           IN  /\ Len(df) >= 30
               /\ Len(pts) = 60
               /\ \A k \in 1..30 : pts[k].type = "history"
               /\ \A k \in 31..60 : pts[k].type = "forecast"
               /\ shown \subseteq observed
               /\ \A d \in observed \ shown : \A e \in shown : d < e
               /\ \A k \in 1..30 :
                      \E i \in 1..Len(df) :
                          df[i].ds = pts[k].date /\ Round2(df[i].y) = pts[k].price
               /\ \A k \in 1..59 : pts[k].date < pts[k + 1].date
               /\ \A h \in 1..30 : \A f \in 31..60 : pts[h].date < pts[f].date

\* a mutual fund with more than 30 observed days was forecast
C19_Witness ==
    /\ req["A"].asset_type = "mutual_fund"
    /\ Len(math["A"].df) > 30
    /\ fut["A"]["math"].state = "returned"
    /\ Len(MathValue("A").points) = 60

\* C20: in every graph_data sequence run_forecast returns, a point carries
\* confidence_lower and confidence_upper exactly when its type is forecast.
C20_BoundsIffForecast ==
    \A r \in Requests :
        fut[r]["math"].state = "returned"
        => \A k \in 1..Len(MathValue(r).points) :
               LET p == MathValue(r).points[k]
               IN  /\ (p.confidence_lower # <<>>) <=> (p.type = "forecast")
                   /\ (p.confidence_upper # <<>>) <=> (p.type = "forecast")
                   /\ p.type \in {"history", "forecast"}

\* a returned sequence holds a history point without bounds and a forecast
\* point with both
C20_Witness ==
    /\ fut["A"]["math"].state = "returned"
    /\ \E k \in 1..Len(MathValue("A").points) :
           LET p == MathValue("A").points[k]
           IN  p.type = "history" /\ p.confidence_lower = <<>> /\ p.confidence_upper = <<>>
    /\ \E k \in 1..Len(MathValue("A").points) :
           LET p == MathValue("A").points[k]
           IN  p.type = "forecast" /\ Len(p.confidence_lower) = 1
                                   /\ Len(p.confidence_upper) = 1

\* the reported risk score of the i-th volatility of the call, in tenths
Risk(i) == call.result[1][i]

\* C21 as stated: the risk score of the metrics equals min(2 x volatility, 10).
C21_RiskEqualsFormula ==
    Called => Risk(1) * 10 = Min(2 * call.volatility[1], 1000)

\* C21: the risk score of the metrics is min(2 x volatility, 10) rounded to one
\* decimal place: it lies in [0, 10], never decreases when the volatility
\* grows, and is 10.0 for every volatility >= 5.0.
C21_RiskRounded ==
    Called
    => LET v == call.volatility[1]
           w == call.volatility[2]
           exact == Min(2 * v, 1000)
       IN  /\ Risk(1) * 10 - exact <= 5 /\ exact - Risk(1) * 10 <= 5
           /\ Risk(1) >= 0 /\ Risk(1) <= 100
           /\ v >= 500 => Risk(1) = 100
           /\ v <= w => Risk(1) <= Risk(2)

\* volatility 1.23 was reported as 2.5, below volatility 20.0 reported as 10.0
C21_Witness ==
    /\ Called
    /\ call.volatility = <<123, 2000>>
    /\ Risk(1) = 25 /\ Risk(2) = 100

\* the observed price of the most recent day of the frame, in thousandths
LatestObserved(df) ==
    df[CHOOSE i \in 1..Len(df) : \A j \in 1..Len(df) : df[j].ds <= df[i].ds].y

ForecastDone(r) == fut[r]["math"].state = "returned"

\* C22 as stated: growth_percentage is (forecast price at +30 days - current
\* price) / current price x 100, to the 2 decimals of the metrics, with the
\* most recent observed price as current price, is negative exactly when the
\* forecast price is below the current price, and predicted_price_30d is the
\* price of the last point.
C22_NegativeIffBelow ==
    \A r \in Requests :
        ForecastDone(r)
        => LET m == MathValue(r).metrics
               pts == MathValue(r).points
               c == LatestObserved(math[r].df)
               f == math[r].future_price[1]
               err == m.growth_percentage * c - (f - c) * 10000
           IN  /\ 2 * err <= c /\ -2 * err <= c
               /\ (m.growth_percentage < 0) <=> (f < c)
               /\ m.current_price = Round2(c)
               /\ m.predicted_price_30d = pts[Len(pts)].price

\* C22: growth_percentage is (forecast price at +30 days - current price) /
\* current price x 100 rounded to 2 decimals, with the most recent observed
\* price as current price for every asset type; it is negative only when the
\* forecast price is below the current price and never positive then; and
\* predicted_price_30d is the price of the last point of graph_data.
C22_GrowthRounded ==
    \A r \in Requests :
        ForecastDone(r)
        => LET m == MathValue(r).metrics
               pts == MathValue(r).points
               c == LatestObserved(math[r].df)
               f == math[r].future_price[1]
               err == m.growth_percentage * c - (f - c) * 10000
           IN  /\ 2 * err <= c /\ -2 * err <= c
               /\ m.growth_percentage < 0 => f < c
               /\ f < c => m.growth_percentage <= 0
               /\ m.current_price = Round2(c)
               /\ m.predicted_price_30d = pts[Len(pts)].price
               /\ pts[Len(pts)].type = "forecast"

\* a mutual fund whose forecast ends just below the last observed price is
\* reported with growth 0.0
C22_Witness ==
    /\ req["A"].asset_type = "mutual_fund"
    /\ ForecastDone("A")
    /\ math["A"].future_price[1] < LatestObserved(math["A"].df)
    /\ MathValue("A").metrics.growth_percentage = 0

\* C23: the search phrase is a lookup on the asset type: gold uses one fixed
\* phrase whatever the symbol and name, a mutual fund uses "<fund name> fund",
\* every other type uses "<asset name> share news"; the symbol is not part of it.
C23_QueryByAssetClass ==
    Called
    => call.result[1] =
           IF call.asset_type = "gold" THEN "Gold Price India"
           ELSE IF call.asset_type = "mutual_fund" THEN call.asset_name \o " fund"
           ELSE call.asset_name \o " share news"

\* the steps analyze_asset takes without awaiting anything
OrchStep(r) == DispatchMath(r) \/ DispatchNews(r) \/ Assemble(r)

\* C24: when every ready task is run and both pipelines finish, every request
\* eventually gets a response; the response is a 200, a 400 or a 500 and, once
\* produced, never changes; the orchestrator can always step except at the
\* join, and at the join it resumes once both pipelines have returned or one
\* has raised.
C24_EventuallyOneResponse ==
    /\ \A r \in Requests : <>Responded(r)
    /\ [](\A r \in Requests :
             /\ Responded(r) => response[r].status \in {200, 400, 500}
             /\ orch[r].pc \notin {"join", "done"} => ENABLED OrchStep(r)
             /\ orch[r].pc = "done" <=> Responded(r))
    /\ [][\A r \in Requests : Responded(r) => response'[r] = response[r]]_vars
    /\ \A r \in Requests :
           (orch[r].pc = "join" /\ JoinReady(r)) ~> (orch[r].pc # "join")

\* both requests were answered, one with an error after a pipeline raised and
\* one with a result
C24_Witness ==
    /\ \A r \in Requests : Responded(r) /\ orch[r].pc = "done"
    /\ AnyRaised("A") /\ response["A"].status = 500
    /\ AllReturned("B") /\ response["B"].status = 200

\* the row of the decision table the i-th pair of arguments of the call matches
RowOf(i) ==
    LET g == call.growth_pct[i]
        s == call.sentiment_score[i]
    IN  IF g > 200
        THEN IF s.num * 5 > s.den THEN "up, good news"
             ELSE IF s.num * 5 < -s.den THEN "up, bad news"
             ELSE "up, neutral news"
        ELSE IF g < -200
        THEN IF s.num * 2 > s.den THEN "down, very good news"
             ELSE IF s.num * 5 < -s.den THEN "down, bad news"
             ELSE "down, other news"
        ELSE "flat"
VerdictOf(i) == call.result[1][i][1]
RationaleOf(i) == call.result[1][i][2]

\* C25: two calls that match the same row of the decision table get the same
\* rationale (and verdict) whatever their numbers, and two calls that match
\* different rows get different rationales, so that the two Hold rows and the
\* two Buy rows can be told apart.
C25_RationaleByRow ==
    Called
    => /\ RowOf(1) = RowOf(2) => call.result[1][1] = call.result[1][2]
       /\ RowOf(1) # RowOf(2) => RationaleOf(1) # RationaleOf(2)

\* both Hold rows and both Buy rows were matched, with different rationales
C25_Witness ==
    /\ Called
    /\ \/ RowOf(1) = "up, bad news" /\ RowOf(2) = "flat"
       \/ RowOf(1) = "up, neutral news" /\ RowOf(2) = "down, very good news"
    /\ VerdictOf(1) = VerdictOf(2)
    /\ RationaleOf(1) # RationaleOf(2)

\* how favourable a verdict is
Rank(verdict) ==
    CASE verdict = "Strong Sell" -> 1
      [] verdict = "Sell" -> 2
      [] verdict = "Hold" -> 3
      [] verdict = "Buy" -> 4
      [] verdict = "Strong Buy" -> 5

\* C28: of two calls with the same growth, the one with the higher or equal
\* sentiment never gets the less favourable verdict, in the order
\* Strong Sell < Sell < Hold < Buy < Strong Buy.
C28_MonotonicInSentiment ==
    (/\ Called
     /\ call.growth_pct[1] = call.growth_pct[2]
     /\ call.sentiment_score[1].num * call.sentiment_score[2].den
            <= call.sentiment_score[2].num * call.sentiment_score[1].den)
    => Rank(VerdictOf(1)) <= Rank(VerdictOf(2))

\* on a falling price, raising the sentiment from -0.6 to 0.6 moved the verdict
\* from Strong Sell to Buy
C28_Witness ==
    /\ Called
    /\ call.growth_pct = <<-300, -300>>
    /\ call.sentiment_score = <<Frac(-60, 100), Frac(60, 100)>>
    /\ VerdictOf(1) = "Strong Sell" /\ VerdictOf(2) = "Buy"

\* (positive - negative) / count over a news feed, 0 for the empty feed
FeedSentiment(feed) ==
    IF feed = <<>> THEN Frac(0, 1)
    ELSE Frac(CountOf(feed, "positive") - CountOf(feed, "negative"), Len(feed))

\* C26: in every 200 response the verdict and verdict_reason are those of the
\* decision table for the growth_percentage of the response's metrics, rounded
\* as it is reported, and the sentiment (positive - negative) / count of the
\* response's own news_feed.
C26_ResponseSelfConsistent ==
    \A r \in Requests :
        Succeeded(r)
        => <<Body(r).verdict, Body(r).verdict_reason>>
               = calculate_verdict(Body(r).metrics.growth_percentage,
                                   FeedSentiment(Body(r).news_feed))

\* a forecast more than 2.0 % above the current price whose growth is reported
\* as 2.00 was answered Hold
C26_Witness ==
    /\ Succeeded("A")
    /\ (math["A"].future_price[1] - LatestObserved(math["A"].df)) * 50
           > LatestObserved(math["A"].df)
    /\ Body("A").metrics.growth_percentage = 200
    /\ Body("A").verdict = "Hold"

AllNeutral(feed) == \A i \in 1..Len(feed) : feed[i].sentiment = "neutral"

\* C27: a 200 response whose news_feed is empty or holds only neutral items has
\* the verdict Buy when its growth_percentage > 2.0, Sell when it is < -2.0 and
\* Hold otherwise, and so never Strong Buy or Strong Sell.
C27_NeutralFeedFollowsGrowth ==
    \A r \in Requests :
        (Succeeded(r) /\ AllNeutral(Body(r).news_feed))
        => /\ Body(r).verdict =
                  IF Body(r).metrics.growth_percentage > 200 THEN "Buy"
                  ELSE IF Body(r).metrics.growth_percentage < -200 THEN "Sell"
                  ELSE "Hold"
           /\ Body(r).verdict \notin {"Strong Buy", "Strong Sell"}

\* a rising forecast with only neutral headlines was answered Buy, not Strong Buy
C27_Witness ==
    /\ Succeeded("A")
    /\ Body("A").news_feed # <<>>
    /\ AllNeutral(Body("A").news_feed)
    /\ Body("A").metrics.growth_percentage > 200
    /\ Body("A").verdict = "Buy"

\* C29: when B is requested after A has been answered, the news_feed of B's
\* 200 response holds items of B's own query only, one per result of that
\* query up to TopN, and none of A's query: the client was cleared before B's
\* search and nothing of A's accumulated in it.
C29_OnlyOwnResults ==
    Succeeded("B")
    => LET feed == Body("B").news_feed
       IN  /\ \A i \in 1..Len(feed) : feed[i].title[1] = news["B"].query
           /\ Len(feed) = Min(Len(news["B"].fetched[1]), TopN)

\* the steps of the two executor threads of a request
MathStep(r) == MathFetch(r, ConcFetches) \/ MathForecast(r, ConcFits)
NewsStep(r) ==
    \/ NewsClear(r)
    \/ NewsSearch(r, FairSearches)
    \/ NewsResult(r)
    \/ NewsClassify(r, ConcClassifications)
Failed(r) == response[r].status \in {400, 500}

\* C30: as soon as one pipeline has raised, analyze_asset can produce its error
\* response, whether or not the other pipeline has finished; after the error
\* response the other pipeline can still take every step it has left, it
\* completes, and the response stays what it was.
C30_ErrorAtOnceOtherRunsOn ==
    /\ [](\A r \in Requests :
             /\ (orch[r].pc = "join" /\ AnyRaised(r)) => ENABLED Join(r)
             /\ (Failed(r) /\ math[r].pc # "done") => ENABLED MathStep(r)
             /\ (Failed(r) /\ news[r].pc # "done") => ENABLED NewsStep(r))
    /\ \A r \in Requests :
           Failed(r) ~> (\A p \in Pipelines : fut[r][p].state # "pending")
    /\ [][\A r \in Requests : Failed(r) => response'[r] = response[r]]_vars

\* A was answered with an error after its forecast raised while its news thread, not yet
\* done, had filled the shared client
C30_Witness ==
    /\ Failed("A")
    /\ fut["A"]["math"].state = "raised"
    /\ fut["A"]["news"].state = "pending"
    /\ news["A"].pc = "result"
    /\ googlenews # <<>>

====
